---- MODULE Spec2Model ----
(***************************************************************************)
(* A state-machine model of acsummary: the advent-calendar pipeline of     *)
(* main.py (collect -> fetch content -> classify -> export), the two       *)
(* calendar parsers of scraper.py, the content fetcher of                  *)
(* content_processor.py, the classifier of ai_processor.py and the        *)
(* sliding-window limiter of rate_limiter.py.                              *)
(*                                                                         *)
(* Text is modelled by short ASCII strings.  The two Japanese literals of  *)
(* ai_processor.py:138 are written in romaji: SentinelGenre stands for the *)
(* genre literal ("unclassified") and SentinelSummary for the summary      *)
(* literal ("failed to generate the summary").                             *)
(***************************************************************************)
EXTENDS Integers, Sequences, FiniteSets, TLC

VARIABLES
    pc,                   \* position of the running operation
    \* rate_limiter.py
    now,                  \* the wall clock read by datetime.now()
    requests_per_period,  \* RateLimiter.requests_per_period
    period_seconds,       \* RateLimiter.period_seconds
    request_times,        \* RateLimiter._request_times (deque, head first)
    called,               \* history: clock value read at the start of each acquire()
    admitted,             \* history: every timestamp acquire() recorded
    waits,                \* history: how long each acquire() slept (0: no sleep)
    \* ai_processor.py
    limiter_kind,         \* the rate_limiter handed to ContentAnalyzer: real or a test mock
    response,             \* what the last acompletion() call answered
    result,               \* how the last analyze_content() call ended
    llm_log,              \* history: the article of every acompletion() call
    analyze_calls,        \* history: number of analyze_content() calls begun
    acquire_calls,        \* history: number of rate_limiter.acquire() calls begun
    \* models.py
    heap,                 \* the Article objects, by identity (mutated in place)
    \* scraper.py, content_processor.py
    domain,               \* create_scraper's local: the netloc of the calendar URL
    created,              \* how the last create_scraper() call ended
    strategy,             \* which parser the scraper in use has
    server_page,          \* the calendar page the origin server holds
    calendar_html,        \* scrape_articles' local: the fetched calendar page
    entries,              \* scrape_articles' local: what the parser returned
    sessions,             \* every aiohttp.ClientSession created: "open" or "closed"
    scraper_session,      \* BaseCalendarScraper._session: 0 (None) or a session
    fetcher_session,      \* DefaultContentFetcher._session: 0 (None) or a session
    http_log,             \* history: every GET issued
    fetch_sleeps,         \* history: every sleep made between fetch attempts
    script,               \* SpecFetch: how the server answers the attempts to come
    fetch_result,         \* SpecFetch: how the last fetch ended
    \* main.py
    articles,             \* collect_articles' list (Article identities)
    articles_with_content,\* process_content's list (Article identities)
    idx,                  \* position of the running stage's loop
    csv_called,           \* whether CSVWriter.write_articles was called
    csv_written,          \* whether the CSV file was written
    csv_file,             \* the output file: "none", "partial" or "complete"
    exported,             \* the rows handed to CSVWriter.write_articles
    error                 \* the exception process_calendar ended with, "none" without

rlVars == <<now, requests_per_period, period_seconds, request_times,
            called, admitted, waits>>

anVars == <<limiter_kind, response, result, llm_log, analyze_calls, acquire_calls>>

httpVars == <<sessions, scraper_session, fetcher_session, http_log, fetch_sleeps,
              script, fetch_result>>

calVars == <<domain, created, strategy, server_page, calendar_html, entries>>

mainVars == <<articles, articles_with_content, idx, csv_called, csv_written,
              csv_file, exported, error>>

vars == <<pc, rlVars, anVars, heap, httpVars, calVars, mainVars>>

(***************************************************************************)
(* Bounds of the model.                                                    *)
(***************************************************************************)
MaxCalls == 3      \* acquire() calls in one run of the limiter
MaxTime == 11      \* the clock stops ticking on its own here
MaxLate == 1       \* how late a sleep may wake / how long a call may take
MaxRpp == 2        \* largest requests_per_period tried
MaxAttempts == 3   \* attempts of one fetch the server's script answers
MaxCells == 2      \* td.cell elements of a grid page
MaxItems == 2      \* li.item elements of a grid page
MaxRows == 2       \* tr rows of a table page
MaxDomain == 5     \* tokens of the netloc handed to create_scraper

(***************************************************************************)
(* Program constants.                                                      *)
(***************************************************************************)
RefRequestsPerPeriod == 1   \* process_articles: RateLimiter(requests_per_period=1, ...)
RefPeriodSeconds == 10      \* process_articles: RateLimiter(..., period_seconds=10.0)
ShortPeriod == 3            \* a second period, to exercise the window arithmetic

(***************************************************************************)
(* Values.  A text is a sequence of characters, each a one-character       *)
(* string, so that strip(), split(), isdigit(), int() and slicing are      *)
(* computed and not assumed.  Python's None is the one-element sequence    *)
(* None, whose element is no character.                                    *)
(***************************************************************************)
None == <<"None">>

\* the result literals of analyze_content's except branch, one element per character
SentinelGenre == <<"mi", "bun", "rui">>
SentinelSummary == <<"you", "yaku", "no", "sei", "sei", "ni",
                     "shitsu", "pai", "shi", "ma", "shi", "ta">>

\* Python truthiness of an Optional[str]: None and "" are falsy
Truthy(v) == v /= None /\ v /= <<>>

Whitespace == {" ", "\n"}
Digits == {"0", "1", "2", "3", "4", "5", "6", "7", "8", "9"}

RECURSIVE LStrip(_)
LStrip(t) == IF t /= <<>> /\ Head(t) \in Whitespace THEN LStrip(Tail(t)) ELSE t

RECURSIVE RStrip(_)
RStrip(t) ==
    IF t /= <<>> /\ t[Len(t)] \in Whitespace
    THEN RStrip(SubSeq(t, 1, Len(t) - 1))
    ELSE t

\* str.strip()
Strip(t) == RStrip(LStrip(t))

\* str.split(sep)[-1]: what follows the last separator
RECURSIVE LastSegment(_, _)
LastSegment(t, sep) ==
    IF \E i \in DOMAIN t : t[i] = sep
    THEN LastSegment(Tail(t), sep)
    ELSE t

\* str.replace(c, ""): every occurrence of the character removed
RECURSIVE Remove(_, _)
Remove(t, c) ==
    IF t = <<>> THEN <<>>
    ELSE IF Head(t) = c THEN Remove(Tail(t), c)
    ELSE <<Head(t)>> \o Remove(Tail(t), c)

\* str.isdigit(): non-empty and decimal digits only
IsDigit(t) == t /= <<>> /\ \A i \in DOMAIN t : t[i] \in Digits

DigitValue(c) ==
    CASE c = "0" -> 0 [] c = "1" -> 1 [] c = "2" -> 2 [] c = "3" -> 3 [] c = "4" -> 4
      [] c = "5" -> 5 [] c = "6" -> 6 [] c = "7" -> 7 [] c = "8" -> 8 [] c = "9" -> 9

\* int(t) of a digit string
RECURSIVE ToInt(_)
ToInt(t) ==
    IF t = <<>> THEN 0
    ELSE 10 * ToInt(SubSeq(t, 1, Len(t) - 1)) + DigitValue(t[Len(t)])

(***************************************************************************)
(* rate_limiter.py                                                         *)
(***************************************************************************)

\* the while loop of acquire(): drop head timestamps strictly older than the period
RECURSIVE EvictOld(_, _, _)
EvictOld(q, t, period) ==
    IF q /= <<>> /\ t - Head(q) > period
    THEN EvictOld(Tail(q), t, period)
    ELSE q

LimitReached_NeverEqual(q, rpp) == Len(q) > rpp

\* "if len(self._request_times) >= self.requests_per_period"
LimitReached(q, rpp) == Len(q) >= rpp

\* wait_time, and the "if wait_time > 0" that decides whether to sleep at all
SleepFor(q, t, rpp, period) ==
    IF LimitReached(q, rpp)
    THEN (IF Head(q) + period - t > 0 THEN Head(q) + period - t ELSE 0)
    ELSE 0

\* RateLimiter.acquire(): evict, maybe sleep, record datetime.now().
\* late: the time the call itself takes beyond the computed sleep.
acquire(late) ==
    LET q == EvictOld(request_times, now, period_seconds)
        slept == SleepFor(q, now, requests_per_period, period_seconds)
        t2 == now + slept + late
    IN /\ now' = t2
       /\ request_times' = Append(q, t2)
       /\ called' = Append(called, now)
       /\ admitted' = Append(admitted, t2)
       /\ waits' = Append(waits, slept)
       /\ UNCHANGED <<requests_per_period, period_seconds>>

(***************************************************************************)
(* scraper.py: the two calendar parsers.  A calendar day is the day of     *)
(* December 2024 (the year and the month are fixed in the parsers).        *)
(***************************************************************************)
LastDayOfMonth == 31

\* date(2024, 12, day) raises ValueError outside 1..31
ValidDay(day) == day >= 1 /\ day <= LastDayOfMonth

ArticleEntry(entry_date, handle_name, url, comment) ==
    [entry_date |-> entry_date, handle_name |-> handle_name, url |-> url,
     comment |-> comment]

Parsed(es) == [exc |-> "none", entries |-> es]
ParseFailed == [exc |-> "ScrapingError", entries |-> <<>>]

\* --- Adventar (grid layout) ---------------------------------------------
\* A page is its td.cell elements and its li.item elements, in document order.
\*   cell: inner  whether the cell's markup contains the substring "inner"
\*         day    text of its .day element, None without one
\*         user   text of its .userName element, None without one
\*   item: date   text of its .date element, None without one
\*         href   href of its ".link a" element, None without the element or
\*                the attribute
\*         comment text of its .comment element, None without one
GridCell(inner, day, user) == [inner |-> inner, day |-> day, user |-> user]
GridItem(date, href, comment) == [date |-> date, href |-> href, comment |-> comment]
GridPage(cells, items) == [site |-> "adventar", cells |-> cells, items |-> items]

ItemMatches_AnyDay(item, day) ==
    /\ item.date /= None
    /\ IsDigit(LastSegment(Strip(item.date), "/"))
    /\ Truthy(item.href)

\* one li.item of _find_article_info's loop: does it give the article of the day
ItemMatches(item, day) ==
    /\ item.date /= None
    /\ IsDigit(LastSegment(Strip(item.date), "/"))
    /\ ToInt(LastSegment(Strip(item.date), "/")) = day
    /\ Truthy(item.href)

\* AdventarCalendarScraper._find_article_info: <<url, comment>> of the first
\* matching item, None without one
RECURSIVE FindArticleInfo(_, _)
FindArticleInfo(day, items) ==
    IF items = <<>> THEN None
    ELSE IF ItemMatches(Head(items), day)
    THEN <<Head(items).href,
           IF Head(items).comment = None THEN None ELSE Strip(Head(items).comment)>>
    ELSE FindArticleInfo(day, Tail(items))

\* the body of the cell loop: "skip" (continue), "error" (date() raised) or "entry"
GridCellResult(cell, items) ==
    IF ~cell.inner THEN [kind |-> "skip"]
    ELSE IF cell.day = None \/ ~IsDigit(Strip(cell.day)) THEN [kind |-> "skip"]
    ELSE LET day == ToInt(Strip(cell.day))
         IN IF ~ValidDay(day) THEN [kind |-> "error"]
            ELSE IF cell.user = None THEN [kind |-> "skip"]
            ELSE LET info == FindArticleInfo(day, items)
                 IN IF info = None THEN [kind |-> "skip"]
                    ELSE [kind |-> "entry",
                          entry |-> ArticleEntry(day, Strip(cell.user), info[1], info[2])]

RECURSIVE GridEntries(_, _)
GridEntries(cells, items) ==
    IF cells = <<>> THEN <<>>
    ELSE LET r == GridCellResult(Head(cells), items)
         IN (IF r.kind = "entry" THEN <<r.entry>> ELSE <<>>)
                \o GridEntries(Tail(cells), items)

\* AdventarCalendarScraper._parse_calendar_page
AdventarParse(page) ==
    IF \E i \in DOMAIN page.cells : GridCellResult(page.cells[i], page.items).kind = "error"
    THEN ParseFailed
    ELSE Parsed(GridEntries(page.cells, page.items))

\* --- Qiita (table layout) -----------------------------------------------
\* A page says whether the calendar section, its table and the table's tbody are
\* there, and holds the tr rows, each the sequence of its td cells.
\*   cell: container whether the cell has the article container div
\*         href      href of the article link, None without the link or attribute
\*         title     text of the article link
\*         author    text of the author link, None without one
\*         label     the cell's other markup (what makes rows differ or not)
TableCell(container, href, title, author, label) ==
    [container |-> container, href |-> href, title |-> title, author |-> author,
     label |-> label]
TablePage(section, table, tbody, rows) ==
    [site |-> "qiita", section |-> section, table |-> table, tbody |-> tbody,
     rows |-> rows]

\* calendar_rows.index(row): the position (0-based) of the first row equal to it;
\* bs4 tags compare by name, attributes and contents
RowIndex(rows, row) == (CHOOSE i \in DOMAIN rows :
                           rows[i] = row /\ \A j \in 1..(i - 1) : rows[j] /= row) - 1

\* "day = (calendar_rows.index(row) * 7) + cell_index"
TableDay(rows, r, c) == RowIndex(rows, rows[r]) * 7 + c

\* whether the cell at row r, column c is emitted
TableCellPosted(cell) ==
    cell.container /\ Truthy(cell.href) /\ cell.author /= None

TableEntry(rows, r, c) ==
    LET cell == rows[r][c]
    IN ArticleEntry(TableDay(rows, r, c), Remove(Strip(cell.author), "@"),
                    cell.href, Strip(cell.title))

RECURSIVE TableRowEntries(_, _, _)
TableRowEntries(rows, r, c) ==
    IF c > Len(rows[r]) THEN <<>>
    ELSE (IF TableCellPosted(rows[r][c]) THEN <<TableEntry(rows, r, c)>> ELSE <<>>)
            \o TableRowEntries(rows, r, c + 1)

RECURSIVE TableEntries(_, _)
TableEntries(rows, r) ==
    IF r > Len(rows) THEN <<>>
    ELSE TableRowEntries(rows, r, 1) \o TableEntries(rows, r + 1)

\* QiitaCalendarScraper._parse_calendar_page
QiitaParse(page) ==
    IF ~page.section \/ ~page.table \/ ~page.tbody THEN ParseFailed
    ELSE IF \E r \in DOMAIN page.rows : \E c \in DOMAIN page.rows[r] :
                TableCellPosted(page.rows[r][c]) /\ ~ValidDay(TableDay(page.rows, r, c))
    THEN ParseFailed
    ELSE Parsed(TableEntries(page.rows, 1))

\* self._parse_calendar_page(html) of the scraper in use
ParseCalendarPage(parser, page) ==
    IF parser = "adventar" THEN AdventarParse(page) ELSE QiitaParse(page)

\* --- create_scraper -----------------------------------------------------
\* A netloc is a sequence of tokens (labels and dots), so that Python's substring
\* test "literal in domain" is the test for a contiguous run of tokens.
AdventarHost == <<"adventar", ".", "org">>
QiitaHost == <<"qiita", ".", "com">>

\* "sub in t" for strings
Contains(t, sub) ==
    \E i \in 0..(Len(t) - Len(sub)) : SubSeq(t, i + 1, i + Len(sub)) = sub

ScraperFor(parser) == [exc |-> "none", strategy |-> parser, message |-> <<>>]
UnsupportedDomain(d) == [exc |-> "ValueError", strategy |-> "none", message |-> d]

\* create_scraper, given domain = urlparse(calendar_url).netloc: the scraper made
\* (by its parser) or the ValueError raised, whose message holds the domain
create_scraper(d) ==
    IF Contains(d, AdventarHost) THEN ScraperFor("adventar")
    ELSE IF Contains(d, QiitaHost) THEN ScraperFor("qiita")
    ELSE UnsupportedDomain(d)

(***************************************************************************)
(* The fetchers: BaseCalendarScraper._fetch_page (scraper.py) and          *)
(* DefaultContentFetcher.fetch (content_processor.py).  The server is a    *)
(* body per URL and a script: script[k] says whether the k-th attempt of   *)
(* the fetch would succeed (2xx and a readable body).                      *)
(***************************************************************************)
Scripts == [1..MaxAttempts -> BOOLEAN]

Fetched(body, attempts) ==
    [exc |-> "none", body |-> body, attempts |-> attempts, sleeps |-> <<>>]
FetchFailed(cls, body, attempts) ==
    [exc |-> cls, body |-> body, attempts |-> attempts, sleeps |-> <<>>]

RECURSIVE Pow2(_)
Pow2(k) == IF k = 0 THEN 1 ELSE 2 * Pow2(k - 1)

\* a fetcher that retries with exponential backoff: attempt k (from 0) that fails
\* is followed by a sleep of 2^k, up to MaxAttempts attempts
RECURSIVE RetryFrom(_, _, _, _, _)
RetryFrom(cls, body, sc, k, slept) ==
    IF sc[k + 1]
    THEN [exc |-> "none", body |-> body, attempts |-> k + 1, sleeps |-> slept]
    ELSE IF k + 1 >= MaxAttempts
    THEN [exc |-> cls, body |-> body, attempts |-> k + 1, sleeps |-> slept]
    ELSE RetryFrom(cls, body, sc, k + 1, Append(slept, Pow2(k)))

fetch_Retrying(session_open, url, body, sc) ==
    IF ~session_open THEN FetchFailed("RuntimeError", body, 0)
    ELSE IF ~Truthy(url) THEN FetchFailed("ValueError", body, 0)
    ELSE RetryFrom("ClientError", body, sc, 0, <<>>)

\* DefaultContentFetcher.fetch: one GET, raise_for_status, the text
fetch(session_open, url, body, sc) ==
    IF ~session_open THEN FetchFailed("RuntimeError", body, 0)
    ELSE IF ~Truthy(url) THEN FetchFailed("ValueError", body, 0)
    ELSE IF sc[1] THEN Fetched(body, 1)
    ELSE FetchFailed("ClientError", body, 1)

fetch_page_Retrying(session_open, url, body, sc) ==
    IF ~session_open THEN FetchFailed("ScrapingError", body, 0)
    ELSE RetryFrom("ScrapingError", body, sc, 0, <<>>)

\* BaseCalendarScraper._fetch_page: one GET, every failure re-raised as ScrapingError
fetch_page(session_open, url, body, sc) ==
    IF ~session_open THEN FetchFailed("ScrapingError", body, 0)
    ELSE IF sc[1] THEN Fetched(body, 1)
    ELSE FetchFailed("ScrapingError", body, 1)

\* the GETs a fetch issued, as log entries: attempt k of article a (0: the calendar)
RequestsOf(session, a, r, sc) ==
    [k \in 1..r.attempts |-> [session |-> session, article |-> a, ok |-> sc[k]]]

(***************************************************************************)
(* content_processor.py: the extractor.  An article page is the text of    *)
(* the elements the extractor looks for, None for an element not there.    *)
(***************************************************************************)
Html(h1, title, og_title, article, main, div) ==
    [h1 |-> h1, title |-> title, og_title |-> og_title, article |-> article,
     main |-> main, div |-> div]

ContentMax == 8000

\* ContentProcessor._extract_content: <<title, content>>
extract_content(html) ==
    LET title_text ==
            IF html.h1 /= None THEN html.h1
            ELSE IF html.title /= None THEN html.title
            ELSE <<>>      \* a meta element has no text; no element gives ""
        content ==
            IF html.article /= None THEN html.article
            ELSE IF html.main /= None THEN html.main
            ELSE IF html.div /= None THEN html.div
            ELSE <<>>
    IN <<Strip(title_text), content>>

\* html2text's handle() on text: the conversion ends the text with a blank line
\* (what it does to markup inside the text is not modelled)
Html2Text(t) == t \o <<"\n", "\n">>

\* the position of the first line break of t, 0 without one
FirstBreak(t) ==
    IF \E i \in DOMAIN t : t[i] = "\n"
    THEN CHOOSE i \in DOMAIN t : t[i] = "\n" /\ \A j \in 1..(i - 1) : t[j] /= "\n"
    ELSE 0

\* str.splitlines(): a final line break does not start another line
RECURSIVE SplitLines(_)
SplitLines(t) ==
    IF t = <<>> THEN <<>>
    ELSE LET k == FirstBreak(t)
         IN IF k = 0 THEN <<t>>
            ELSE <<SubSeq(t, 1, k - 1)>> \o SplitLines(SubSeq(t, k + 1, Len(t)))

\* ' '.join(line for line in lines if line), the lines stripped
RECURSIVE JoinLines(_)
JoinLines(lines) ==
    IF lines = <<>> THEN <<>>
    ELSE LET first == Strip(Head(lines))
             rest == JoinLines(Tail(lines))
         IN IF first = <<>> THEN rest
            ELSE IF rest = <<>> THEN first
            ELSE first \o <<" ">> \o rest

Prefix_OneShort(t, n) == SubSeq(t, 1, IF Len(t) < n THEN Len(t) ELSE n - 1)

\* text[:n]
Prefix(t, n) == SubSeq(t, 1, IF Len(t) < n THEN Len(t) ELSE n)

\* ContentProcessor._clean_content
clean_content(content) ==
    Prefix(JoinLines(SplitLines(Html2Text(content))), ContentMax)

DelayBeforeFetch_OneUnit(a) == <<1>>

\* the sleeps process_articles' loop makes before it calls fetcher.fetch for
\* article a: the loop body begins with the fetch
DelayBeforeFetch(a) == <<>>

ProcessedArticle_BlankOnFailure(article, r, fault) ==
    IF r.exc /= "none" THEN [article EXCEPT !.content = <<>>]
    ELSE IF fault = "extract" THEN article
    ELSE LET tc == extract_content(r.body)
         IN IF fault = "clean"
            THEN [article EXCEPT !.title = tc[1]]
            ELSE [article EXCEPT !.title = tc[1], !.content = clean_content(tc[2])]

\* the try block of process_articles' loop for one article, as the article it leaves:
\* r is how the fetch ended, fault where (if anywhere) extraction raised
ProcessedArticle(article, r, fault) ==
    IF r.exc /= "none" \/ fault = "extract" THEN article
    ELSE LET tc == extract_content(r.body)
         IN IF fault = "clean"
            THEN [article EXCEPT !.title = tc[1]]
            ELSE [article EXCEPT !.title = tc[1], !.content = clean_content(tc[2])]

Yielded_OnSuccessOnly(a, r, fault) ==
    IF r.exc /= "none" \/ fault /= "none" THEN <<>> ELSE <<a>>

\* what the loop body yields for article a: the article, in the try block and in
\* the except block alike
Yielded(a, r, fault) == <<a>>

(***************************************************************************)
(* ai_processor.py                                                         *)
(***************************************************************************)

\* The exception classes the classifier meets; all derive from Exception.
ExceptionClasses == {"Exception", "AnalysisError", "JSONDecodeError", "AttributeError"}

Raise(cls) == [exc |-> cls, value |-> <<None, None>>]
Return(genre, summary) == [exc |-> "none", value |-> <<genre, summary>>]

\* A JSON member value: null, or a string (possibly empty).
JNull == <<"null">>

\* The message content of a completion choice, by what json.loads makes of it:
\*   syntax "none"    the content attribute is None
\*   syntax "empty"   the empty string
\*   syntax "invalid" text that is not JSON (the test's "Not a JSON")
\*   syntax "array"   valid JSON that is not an object
\*   syntax "object"  a JSON object; fields maps its member names to their values
MessageContent(syntax, fields) == [syntax |-> syntax, fields |-> fields]

Genres == {<<"p", "g">>}
Summaries == {<<"s", "t">>}

JsonObjects ==
    UNION {[D -> {JNull, <<>>} \cup Genres \cup Summaries] :
              D \in SUBSET {"genre", "summary"}}

WellTypedJsonObjects ==
    {f \in JsonObjects :
        /\ ("genre" \in DOMAIN f => f["genre"] \in {JNull, <<>>} \cup Genres)
        /\ ("summary" \in DOMAIN f => f["summary"] \in {JNull, <<>>} \cup Summaries)}

MessageContents ==
    {MessageContent(s, <<>>) : s \in {"none", "empty", "invalid", "array"}}
        \cup {MessageContent("object", f) : f \in WellTypedJsonObjects}

\* What acompletion() does:
\*   kind "raise"  it raises (network, quota, authentication)
\*   kind "none"   it returns None
\*   kind "dict"   it returns a plain dict, which has no attribute "choices"
\*   kind "resp"   it returns a response object with the given choices
Completion(kind, choices) == [kind |-> kind, choices |-> choices]

Completions ==
    {Completion(k, <<>>) : k \in {"raise", "none", "dict", "resp"}}
        \cup {Completion("resp", <<c>>) : c \in MessageContents}

\* dict.get(key): the member's value, None for a missing member and for null
JsonGet(fields, key) ==
    IF key \in DOMAIN fields /\ fields[key] /= JNull THEN fields[key] ELSE None

FieldsMissing_BothOnly(genre, summary) == ~Truthy(genre) /\ ~Truthy(summary)

\* "if not genre or not summary"
FieldsMissing(genre, summary) == ~Truthy(genre) \/ ~Truthy(summary)

\* the inner try of analyze_content: json.loads, the two get() calls, the check
ParseAnalysis(content) ==
    CASE content.syntax = "invalid" -> Raise("JSONDecodeError")
      [] content.syntax = "array" -> Raise("AttributeError")
      [] OTHER ->
            LET genre == JsonGet(content.fields, "genre")
                summary == JsonGet(content.fields, "summary")
            IN IF FieldsMissing(genre, summary)
               THEN Raise("AnalysisError")
               ELSE Return(genre, summary)

\* the body of the outer try of analyze_content, after acquire()
AnalyzeBody(acquire_raises, completion) ==
    IF acquire_raises THEN Raise("Exception")
    ELSE IF completion.kind = "raise" THEN Raise("Exception")
    ELSE IF completion.kind = "none" THEN Raise("AnalysisError")
    ELSE IF completion.kind = "dict" THEN Raise("AttributeError")
    ELSE IF completion.choices = <<>> THEN Raise("AnalysisError")
    ELSE IF completion.choices[1].syntax \in {"none", "empty"} THEN Raise("AnalysisError")
    ELSE LET r == ParseAnalysis(completion.choices[1])
         IN IF r.exc = "JSONDecodeError" THEN Raise("AnalysisError") ELSE r

Caught_AnalysisErrorOnly(cls) == cls = "AnalysisError"

\* "except Exception" of analyze_content
Caught(cls) == cls \in ExceptionClasses

\* ContentAnalyzer.analyze_content, as the value it returns or the exception it lets out
analyze_content(acquire_raises, completion) ==
    LET r == AnalyzeBody(acquire_raises, completion)
    IN IF r.exc /= "none" /\ Caught(r.exc)
       THEN Return(SentinelGenre, SentinelSummary)
       ELSE r

\* self.rate_limiter.acquire() as analyze_content calls it
LimiterAcquire(late) ==
    IF limiter_kind = "real" THEN acquire(late) ELSE UNCHANGED rlVars

AnalyzeCall_CompletionAnyway(a, completion, late) ==
    LET acquire_raises == limiter_kind = "mock_raising"
    IN /\ LimiterAcquire(late)
       /\ llm_log' = Append(llm_log, a)
       /\ response' = completion
       /\ result' = analyze_content(acquire_raises, completion)
       /\ analyze_calls' = analyze_calls + 1
       /\ acquire_calls' = acquire_calls + 1
       /\ UNCHANGED limiter_kind

\* One call of analyze_content for article object a: the limiter, then the
\* completion endpoint (unless acquire raised), then the answer.
AnalyzeCall(a, completion, late) ==
    LET acquire_raises == limiter_kind = "mock_raising"
    IN /\ LimiterAcquire(late)
       /\ llm_log' = IF acquire_raises THEN llm_log ELSE Append(llm_log, a)
       /\ response' = IF acquire_raises THEN response ELSE completion
       /\ result' = analyze_content(acquire_raises, completion)
       /\ analyze_calls' = analyze_calls + 1
       /\ acquire_calls' = acquire_calls + 1
       /\ UNCHANGED limiter_kind

process_article_KeepComment(a, completion, late) ==
    /\ AnalyzeCall(a, completion, late)
    /\ LET r == analyze_content(limiter_kind = "mock_raising", completion)
       IN heap' = IF r.exc = "none"
                  THEN [heap EXCEPT ![a].genre = r.value[1],
                                    ![a].summary = IF heap[a].summary = None
                                                   THEN r.value[2]
                                                   ELSE heap[a].summary]
                  ELSE heap

\* process_article: the returned pair is stored, an escaping exception is logged
process_article(a, completion, late) ==
    /\ AnalyzeCall(a, completion, late)
    /\ LET r == analyze_content(limiter_kind = "mock_raising", completion)
       IN heap' = IF r.exc = "none"
                  THEN [heap EXCEPT ![a].genre = r.value[1], ![a].summary = r.value[2]]
                  ELSE heap

(***************************************************************************)
(* models.py                                                               *)
(***************************************************************************)
Article(date, handle_name, title, genre, summary, url, content) ==
    [date |-> date, handle_name |-> handle_name, title |-> title, genre |-> genre,
     summary |-> summary, url |-> url, content |-> content]

(***************************************************************************)
(* scraper.py, content_processor.py: the session scopes                    *)
(***************************************************************************)

\* __aenter__: self._session = aiohttp.ClientSession()
SessionsAfterOpen == Append(sessions, "open")
OpenedSession == Len(sessions) + 1

ClearedSession_Kept(session) == session

\* __aexit__: self._session = None
ClearedSession(session) == 0

SessionsAfterClose_Leaked(session) == sessions

\* __aexit__: "if self._session: await self._session.close(); self._session = None"
SessionsAfterClose(session) ==
    IF session /= 0 THEN [sessions EXCEPT ![session] = "closed"] ELSE sessions

(***************************************************************************)
(* The inputs of the model.                                                *)
(***************************************************************************)
SeqsUpTo(S, n) == UNION {[1..k -> S] : k \in 0..n}

CalendarUrl == <<"c">>
Url1 == <<"u", "1">>
Url3 == <<"u", "3">>

\* grid cells: day 1 by "al", day 3 by "bo", a cell without "inner", a day 32
GridCells ==
    {GridCell(TRUE, <<"1">>, <<" ", "a", "l">>),
     GridCell(TRUE, <<"3">>, <<"b", "o">>),
     GridCell(FALSE, None, None),
     GridCell(TRUE, <<"3", "2">>, <<"b", "o">>)}

\* grid items: 12/1 with a comment, 12/03 without, 12/03 not yet linked
GridItems ==
    {GridItem(<<"1", "2", "/", "1">>, Url1, <<"h", "i">>),
     GridItem(<<"1", "2", "/", "0", "3">>, Url3, None),
     GridItem(<<"1", "2", "/", "0", "3">>, None, None)}

GridPages ==
    {GridPage(cells, items) :
        cells \in SeqsUpTo(GridCells, MaxCells), items \in SeqsUpTo(GridItems, MaxItems)}

\* table rows: a posted first day; an author without an article, then a posted
\* day; a cell without a container, then an author without an article
TableRows ==
    {<<TableCell(TRUE, Url1, <<" ", "t">>, <<"@", "a", "l">>, <<>>)>>,
     <<TableCell(TRUE, None, <<>>, <<"@", "b", "o">>, <<>>),
       TableCell(TRUE, Url3, <<"s">>, <<"@", "b", "o">>, <<>>)>>,
     <<TableCell(FALSE, None, <<>>, None, <<>>),
       TableCell(TRUE, None, <<>>, <<"@", "a", "l">>, <<>>)>>}

TablePages ==
    {TablePage(TRUE, TRUE, TRUE, rows) : rows \in SeqsUpTo(TableRows, MaxRows)}
        \cup {TablePage(FALSE, FALSE, FALSE, <<>>), TablePage(TRUE, FALSE, FALSE, <<>>),
              TablePage(TRUE, TRUE, FALSE, <<>>)}

CalendarPages(parser) == IF parser = "adventar" THEN GridPages ELSE TablePages

\* article pages: one with a heading and an article body, one with nothing
HtmlPages ==
    {Html(<<" ", "T">>, <<"D">>, None, <<"b", "\n", " ", "c">>, None, None),
     Html(None, None, None, None, None, None)}

(***************************************************************************)
(* Rest states of the parts a specification does not exercise.             *)
(***************************************************************************)
NoResult == [exc |-> "unset", value |-> <<None, None>>]
NoCompletion == Completion("unset", <<>>)
NoPage == [site |-> "none"]
NoFetch == [exc |-> "unset", body |-> NoPage, attempts |-> 0, sleeps |-> <<>>]

\* RateLimiter(requests_per_period=1, period_seconds=10.0), freshly constructed
RefLimiter ==
    /\ now = 0
    /\ requests_per_period = RefRequestsPerPeriod
    /\ period_seconds = RefPeriodSeconds
    /\ request_times = <<>>
    /\ called = <<>>
    /\ admitted = <<>>
    /\ waits = <<>>

AnalyzerIdle ==
    /\ response = NoCompletion
    /\ result = NoResult
    /\ llm_log = <<>>
    /\ analyze_calls = 0
    /\ acquire_calls = 0

HttpIdle ==
    /\ sessions = <<>>
    /\ scraper_session = 0
    /\ fetcher_session = 0
    /\ http_log = <<>>
    /\ fetch_sleeps = <<>>
    /\ script = <<>>
    /\ fetch_result = NoFetch

NotCreated == [exc |-> "unset", strategy |-> "none", message |-> <<>>]

CalendarIdle ==
    /\ domain = <<>>
    /\ created = NotCreated
    /\ strategy = "none"
    /\ server_page = NoPage
    /\ calendar_html = NoPage
    /\ entries = <<>>

MainIdle ==
    /\ articles = <<>>
    /\ articles_with_content = <<>>
    /\ idx = 0
    /\ csv_called = FALSE
    /\ csv_written = FALSE
    /\ csv_file = "none"
    /\ exported = <<>>
    /\ error = "none"

(***************************************************************************)
(* Time                                                                    *)
(***************************************************************************)

\* one unit of time passes while the caller of the limiter idles between two calls
Tick ==
    /\ pc = "rl"
    /\ now < MaxTime
    /\ now' = now + 1
    /\ UNCHANGED <<pc, requests_per_period, period_seconds, request_times,
                   called, admitted, waits, anVars, heap, httpVars, calVars, mainVars>>

(***************************************************************************)
(* SpecRL: a sequential caller of one RateLimiter at arbitrary call times. *)
(***************************************************************************)
InitRL ==
    /\ pc = "rl"
    /\ now = 0
    /\ requests_per_period \in 1..MaxRpp
    /\ period_seconds \in {ShortPeriod, RefPeriodSeconds}
    /\ request_times = <<>>
    /\ called = <<>>
    /\ admitted = <<>>
    /\ waits = <<>>
    /\ limiter_kind = "real"
    /\ AnalyzerIdle
    /\ heap = <<>>
    /\ HttpIdle
    /\ CalendarIdle
    /\ MainIdle

\* the caller calls acquire() at the current instant
RLCall ==
    /\ pc = "rl"
    /\ Len(admitted) < MaxCalls
    /\ \E late \in 0..MaxLate : acquire(late)
    /\ UNCHANGED <<pc, anVars, heap, httpVars, calVars, mainVars>>

NextRL == RLCall \/ Tick

SpecRL == InitRL /\ [][NextRL]_vars

(***************************************************************************)
(* SpecAnalyze: analyze_content called directly, as the tests call it,     *)
(* with a real limiter or a mock, against every shape of completion.       *)
(***************************************************************************)
AnalyzeInputs ==
    {Article(1, <<"U">>, <<"T">>, None, summary, <<"u">>, content) :
        summary \in {None, <<"c">>}, content \in {None, <<"b">>}}

InitAnalyze ==
    /\ pc = "analyze"
    /\ RefLimiter
    /\ limiter_kind \in {"real", "mock", "mock_raising"}
    /\ AnalyzerIdle
    /\ heap \in {<<a>> : a \in AnalyzeInputs}
    /\ HttpIdle
    /\ CalendarIdle
    /\ MainIdle

\* one call of analyze_content(article) by a test or another direct caller
AnalyzeStep ==
    /\ pc = "analyze"
    /\ analyze_calls < MaxCalls
    /\ \E completion \in Completions, late \in 0..MaxLate :
          AnalyzeCall(1, completion, late)
    /\ UNCHANGED <<pc, heap, httpVars, calVars, mainVars>>

NextAnalyze == AnalyzeStep

SpecAnalyze == InitAnalyze /\ [][NextAnalyze]_vars

(***************************************************************************)
(* SpecFetch: one fetcher, its session scope entered or not, asked once    *)
(* for a URL against a server whose answers to the attempts are scripted.  *)
(***************************************************************************)
InitFetch ==
    /\ pc \in {"fetch_calendar", "fetch_content"}
    /\ RefLimiter
    /\ limiter_kind = "real"
    /\ AnalyzerIdle
    /\ heap = <<>>
    /\ sessions = <<>>
    /\ scraper_session = 0
    /\ fetcher_session = 0
    /\ http_log = <<>>
    /\ fetch_sleeps = <<>>
    /\ script \in Scripts
    /\ fetch_result = NoFetch
    /\ domain = <<>>
    /\ created = NotCreated
    /\ strategy = "none"
    /\ server_page \in {TablePage(TRUE, TRUE, TRUE, <<>>)}
    /\ calendar_html = NoPage
    /\ entries = <<>>
    /\ MainIdle

\* "async with" entered: __aenter__ of the scraper or of the fetcher
FetcherEnter ==
    /\ pc \in {"fetch_calendar", "fetch_content"}
    /\ sessions = <<>>
    /\ sessions' = SessionsAfterOpen
    /\ IF pc = "fetch_calendar"
       THEN scraper_session' = OpenedSession /\ UNCHANGED fetcher_session
       ELSE fetcher_session' = OpenedSession /\ UNCHANGED scraper_session
    /\ UNCHANGED <<pc, rlVars, anVars, heap, http_log, fetch_sleeps, script,
                   fetch_result, calVars, mainVars>>

\* "async with" left: __aexit__
FetcherExit ==
    /\ pc \in {"fetch_calendar", "fetch_content"}
    /\ scraper_session + fetcher_session /= 0
    /\ sessions' = SessionsAfterClose(scraper_session + fetcher_session)
    /\ scraper_session' = ClearedSession(scraper_session)
    /\ fetcher_session' = ClearedSession(fetcher_session)
    /\ UNCHANGED <<pc, rlVars, anVars, heap, http_log, fetch_sleeps, script,
                   fetch_result, calVars, mainVars>>

\* one call of _fetch_page(calendar_url) or of fetch(url)
FetchCall ==
    /\ pc \in {"fetch_calendar", "fetch_content"}
    /\ fetch_result = NoFetch
    /\ \E url \in {<<>>, Url1}, body \in HtmlPages :
          LET r == IF pc = "fetch_calendar"
                   THEN fetch_page(scraper_session /= 0, CalendarUrl, server_page, script)
                   ELSE fetch(fetcher_session /= 0, url, body, script)
          IN /\ fetch_result' = r
             /\ http_log' = http_log
                    \o RequestsOf(scraper_session + fetcher_session, 0, r, script)
             /\ fetch_sleeps' = fetch_sleeps \o r.sleeps
    /\ UNCHANGED <<pc, rlVars, anVars, heap, sessions, scraper_session,
                   fetcher_session, script, calVars, mainVars>>

NextFetch == FetcherEnter \/ FetcherExit \/ FetchCall

SpecFetch == InitFetch /\ [][NextFetch]_vars

(***************************************************************************)
(* SpecParse: _parse_calendar_page of either scraper, called on one page.  *)
(***************************************************************************)
InitParse ==
    /\ pc = "parse"
    /\ RefLimiter
    /\ limiter_kind = "real"
    /\ AnalyzerIdle
    /\ heap = <<>>
    /\ HttpIdle
    /\ domain = <<>>
    /\ created = NotCreated
    /\ strategy \in {"adventar", "qiita"}
    /\ server_page = NoPage
    /\ calendar_html \in CalendarPages(strategy)
    /\ entries = <<>>
    /\ MainIdle

\* entries = self._parse_calendar_page(calendar_html), or the exception it raises
ParseStep ==
    /\ pc = "parse"
    /\ LET p == ParseCalendarPage(strategy, calendar_html)
       IN /\ entries' = p.entries
          /\ error' = p.exc
    /\ pc' = "parsed"
    /\ UNCHANGED <<rlVars, anVars, heap, httpVars, domain, created, strategy,
                   server_page, calendar_html, articles, articles_with_content, idx,
                   csv_called, csv_written, csv_file, exported>>

NextParse == ParseStep

SpecParse == InitParse /\ [][NextParse]_vars

(***************************************************************************)
(* SpecCreate: create_scraper called on one calendar URL.                  *)
(***************************************************************************)
\* the labels and dots a netloc is made of; "x" is any other label
HostTokens == {"adventar", ".", "org", "qiita", "com", "x"}

\* urlparse(calendar_url).netloc, over the calendar URLs tried
Netlocs == SeqsUpTo(HostTokens, MaxDomain)

InitCreate ==
    /\ pc = "create"
    /\ RefLimiter
    /\ limiter_kind = "real"
    /\ AnalyzerIdle
    /\ heap = <<>>
    /\ HttpIdle
    /\ domain \in Netlocs
    /\ created = NotCreated
    /\ strategy = "none"
    /\ server_page = NoPage
    /\ calendar_html = NoPage
    /\ entries = <<>>
    /\ MainIdle

\* scraper = create_scraper(calendar_url): the constructors only store the URL,
\* the session is made later, in __aenter__
CreateStep ==
    /\ pc = "create"
    /\ created' = create_scraper(domain)
    /\ strategy' = created'.strategy
    /\ error' = created'.exc
    /\ pc' = "created"
    /\ UNCHANGED <<rlVars, anVars, heap, httpVars, domain, server_page,
                   calendar_html, entries, articles, articles_with_content, idx,
                   csv_called, csv_written, csv_file, exported>>

NextCreate == CreateStep

SpecCreate == InitCreate /\ [][NextCreate]_vars

(***************************************************************************)
(* SpecExtract: the extraction of one fetched article page, as in the try  *)
(* block of ContentProcessor.process_articles.                             *)
(***************************************************************************)
\* a body text of n characters without a line break
LongText(n) == [i \in 1..n |-> "a"]

\* the texts of the title sources
HeadingTexts == {None, <<" ", "T">>, <<>>}
TitleTexts == {None, <<"D", "\n">>, <<>>}
OgTitles == {None, <<"O">>}

\* pages that differ in their title sources and in which body element they have
TitledPages ==
    {Html(h1, title, og_title, article, main, div) :
        h1 \in HeadingTexts, title \in TitleTexts, og_title \in OgTitles,
        article \in {None, <<"b", "\n", " ", "c">>}, main \in {None, <<"m">>},
        div \in {None, <<" ", "d", " ", "\n", "\n", "e">>}}

\* pages whose article text is around ContentMax characters long: one word, or
\* two lines that the cleaning joins
LongTexts ==
    {LongText(ContentMax - 1), LongText(ContentMax), LongText(ContentMax + 1),
     <<" ">> \o LongText(ContentMax) \o <<" ", "\n">>,
     LongText(ContentMax - 2) \o <<"\n", " ">> \o LongText(2),
     LongText(ContentMax - 2) \o <<" ", "\n", "\n">> \o LongText(1)}

LongPages == {Html(<<"T">>, None, None, article, None, None) : article \in LongTexts}

ExtractPages == TitledPages \cup LongPages

InitExtract ==
    /\ pc = "extract"
    /\ RefLimiter
    /\ limiter_kind = "real"
    /\ AnalyzerIdle
    /\ heap = <<Article(1, <<"a", "l">>, None, None, None, Url1, None)>>
    /\ sessions = <<>>
    /\ scraper_session = 0
    /\ fetcher_session = 0
    /\ http_log = <<>>
    /\ fetch_sleeps = <<>>
    /\ script = <<>>
    /\ \E body \in ExtractPages : fetch_result = Fetched(body, 1)
    /\ CalendarIdle
    /\ MainIdle

\* title, content = self._extract_content(html); article.title = title;
\* article.content = self._clean_content(content)
ExtractStep ==
    /\ pc = "extract"
    /\ heap' = [heap EXCEPT ![1] = ProcessedArticle(heap[1], fetch_result, "none")]
    /\ pc' = "extracted"
    /\ UNCHANGED <<rlVars, anVars, httpVars, calVars, mainVars>>

NextExtract == ExtractStep

SpecExtract == InitExtract /\ [][NextExtract]_vars

(***************************************************************************)
(* Spec: one run of main.py's process_calendar.                            *)
(***************************************************************************)
Init ==
    /\ pc = "start"
    /\ RefLimiter
    /\ limiter_kind = "real"
    /\ AnalyzerIdle
    /\ heap = <<>>
    /\ HttpIdle
    /\ domain = <<>>
    /\ created = NotCreated
    /\ strategy \in {"adventar", "qiita"}
    /\ server_page \in CalendarPages(strategy)
    /\ calendar_html = NoPage
    /\ entries = <<>>
    /\ MainIdle

NewArticle_CommentDropped(e) ==
    Article(e.entry_date, e.handle_name, <<>>, None, None, e.url, None)

\* scrape_articles' Article(...) for one parsed entry
NewArticle(e) ==
    Article(e.entry_date, e.handle_name, <<>>, None, e.comment, e.url, None)

AbortCollect_Swallowed(cls) ==
    /\ sessions' = SessionsAfterClose(scraper_session)
    /\ scraper_session' = ClearedSession(scraper_session)
    /\ error' = error
    /\ pc' = "collected"

\* scrape_articles' "except Exception: raise ScrapingError" reaching process_calendar's
\* "except Exception: raise click.ClickException", after the scraper's __aexit__
AbortCollect(cls) ==
    /\ sessions' = SessionsAfterClose(scraper_session)
    /\ scraper_session' = ClearedSession(scraper_session)
    /\ error' = cls
    /\ pc' = "aborted"

\* collect_articles: "async with scraper" entered
CollectEnter ==
    /\ pc = "start"
    /\ sessions' = SessionsAfterOpen
    /\ scraper_session' = OpenedSession
    /\ pc' = "collect_fetch"
    /\ UNCHANGED <<rlVars, anVars, heap, fetcher_session, http_log, fetch_sleeps,
                   script, fetch_result, calVars, mainVars>>

\* scrape_articles: calendar_html = await self._fetch_page(self.calendar_url)
CollectFetch ==
    /\ pc = "collect_fetch"
    /\ \E sc \in Scripts :
          LET r == fetch_page(scraper_session /= 0, CalendarUrl, server_page, sc)
          IN /\ http_log' = http_log \o RequestsOf(scraper_session, 0, r, sc)
             /\ fetch_sleeps' = fetch_sleeps \o r.sleeps
             /\ IF r.exc = "none"
                THEN /\ calendar_html' = r.body
                     /\ pc' = "collect_parse"
                     /\ UNCHANGED <<sessions, scraper_session, error>>
                ELSE /\ AbortCollect(r.exc)
                     /\ UNCHANGED calendar_html
    /\ UNCHANGED <<rlVars, anVars, heap, fetcher_session, script, fetch_result,
                   domain, created, strategy, server_page, entries, articles,
                   articles_with_content,
                   idx, csv_called, csv_written, csv_file, exported>>

\* scrape_articles: the parse, then one Article per entry, appended by
\* collect_articles; then the scraper's scope is left
CollectParse ==
    /\ pc = "collect_parse"
    /\ LET p == ParseCalendarPage(strategy, calendar_html)
       IN IF p.exc = "none"
          THEN /\ entries' = p.entries
               /\ heap' = [i \in DOMAIN p.entries |-> NewArticle(p.entries[i])]
               /\ articles' = [i \in DOMAIN p.entries |-> i]
               /\ sessions' = SessionsAfterClose(scraper_session)
               /\ scraper_session' = ClearedSession(scraper_session)
               /\ pc' = "collected"
               \* the page is read no more: neither the local nor the server's copy
               /\ calendar_html' = NoPage
               /\ server_page' = NoPage
               /\ UNCHANGED error
          ELSE /\ AbortCollect(p.exc)
               /\ UNCHANGED <<entries, heap, articles, calendar_html, server_page>>
    /\ UNCHANGED <<rlVars, anVars, fetcher_session, http_log, fetch_sleeps, script,
                   fetch_result, domain, created, strategy,
                   articles_with_content, idx, csv_called,
                   csv_written, csv_file, exported>>

NothingToDo_Never(collected) == FALSE

\* process_calendar: "if not articles"
NothingToDo(collected) == collected = <<>>

\* process_calendar: "if not articles: return", else the content stage begins and
\* process_articles enters "async with self.fetcher"
CheckArticles ==
    /\ pc = "collected"
    /\ IF NothingToDo(articles)
       THEN /\ pc' = "done"
            /\ UNCHANGED <<sessions, fetcher_session, idx>>
       ELSE /\ pc' = "content"
            /\ sessions' = SessionsAfterOpen
            /\ fetcher_session' = OpenedSession
            /\ idx' = 1
    /\ UNCHANGED <<rlVars, anVars, heap, scraper_session, http_log, fetch_sleeps,
                   script, fetch_result, calVars, articles, articles_with_content,
                   csv_called, csv_written, csv_file, exported, error>>

\* one iteration of ContentProcessor.process_articles' loop and of process_content's
ContentStep ==
    /\ pc = "content"
    /\ idx <= Len(articles)
    /\ \E body \in HtmlPages, sc \in Scripts, fault \in {"none", "extract", "clean"} :
          LET a == articles[idx]
              r == fetch(fetcher_session /= 0, heap[a].url, body, sc)
          IN /\ heap' = [heap EXCEPT ![a] = ProcessedArticle(heap[a], r, fault)]
             /\ articles_with_content' = articles_with_content \o Yielded(a, r, fault)
             /\ http_log' = http_log \o RequestsOf(fetcher_session, a, r, sc)
             /\ fetch_sleeps' = fetch_sleeps \o DelayBeforeFetch(a) \o r.sleeps
    /\ idx' = idx + 1
    /\ UNCHANGED <<pc, rlVars, anVars, sessions, scraper_session, fetcher_session,
                   script, fetch_result, calVars, articles, csv_called, csv_written, csv_file,
                   exported, error>>

\* the loop is over: the fetcher's scope is left, process_content returns and
\* ai_processor.process_articles builds its limiter and analyzer
StageFinished_AfterFirst(i, list) == i > 1

\* a stage's "for article in ..." loop has run over the whole list: the statement
\* after the stage is reached only then
StageFinished(i, list) == i > Len(list)

\* process_content: the loop of process_articles is over, "async with self.fetcher" exits
ContentExit ==
    /\ pc = "content"
    /\ StageFinished(idx, articles)
    /\ sessions' = SessionsAfterClose(fetcher_session)
    /\ fetcher_session' = ClearedSession(fetcher_session)
    /\ pc' = "classify"
    /\ idx' = 1
    /\ UNCHANGED <<rlVars, anVars, heap, scraper_session, http_log, fetch_sleeps,
                   script, fetch_result, calVars, articles, articles_with_content,
                   csv_called, csv_written, csv_file, exported, error>>

\* one iteration of ai_processor.process_articles' loop
ClassifyStep ==
    /\ pc = "classify"
    /\ idx <= Len(articles_with_content)
    /\ \E completion \in Completions :
          process_article(articles_with_content[idx], completion, 0)
    /\ idx' = idx + 1
    /\ UNCHANGED <<pc, httpVars, calVars, articles, articles_with_content,
                   csv_called, csv_written, csv_file, exported, error>>

\* the rows CSVWriter.write_articles is handed
Rows == [i \in DOMAIN articles_with_content |-> heap[articles_with_content[i]]]

ExportError_Swallowed(io) == "none"

\* the exception the export ends with: mkdir, open and the writes raise OSError
\* (a write may also raise on a value it cannot format or encode)
ExportError(io) == IF io = "ok" THEN "none" ELSE "OSError"

\* what "with open(output_path, 'w')" and the writes leave on disk: nothing when
\* mkdir or open failed, the file created and written up to the failing write
\* when a write failed, the whole file otherwise
ExportFile(io) ==
    IF io = "ok" THEN "complete"
    ELSE IF io = "write_fails" THEN "partial"
    ELSE "none"

\* process_calendar: the output directory is made and CSVWriter.write_articles
\* called; io says which of mkdir, open and the writes the file system lets succeed
Export ==
    /\ pc = "classify"
    /\ StageFinished(idx, articles_with_content)
    /\ \E io \in {"ok", "mkdir_fails", "open_fails", "write_fails"} :
          /\ csv_called' = (io /= "mkdir_fails")
          /\ exported' = IF io /= "mkdir_fails" THEN Rows ELSE exported
          /\ csv_written' = (io = "ok")
          /\ csv_file' = ExportFile(io)
          /\ error' = ExportError(io)
          /\ pc' = IF ExportError(io) = "none" THEN "done" ELSE "aborted"
    /\ UNCHANGED <<rlVars, anVars, heap, httpVars, calVars, articles,
                   articles_with_content, idx>>

Next ==
    \/ CollectEnter
    \/ CollectFetch
    \/ CollectParse
    \/ CheckArticles
    \/ ContentStep
    \/ ContentExit
    \/ ClassifyStep
    \/ Export

Spec == Init /\ [][Next]_vars

(***************************************************************************)
(* Claims                                                                  *)
(***************************************************************************)

\* the completion is one of the failure shapes the claim lists
FailureShape(c) ==
    \/ c.kind \in {"none", "dict"}
    \/ c.kind = "resp" /\ c.choices = <<>>
    \/ /\ c.kind = "resp" /\ c.choices /= <<>>
       /\ \/ c.choices[1].syntax \in {"none", "empty", "invalid", "array"}
          \/ ~Truthy(JsonGet(c.choices[1].fields, "genre"))
          \/ ~Truthy(JsonGet(c.choices[1].fields, "summary"))

InWindow(T) ==
    {j \in DOMAIN admitted : admitted[j] > T - period_seconds /\ admitted[j] <= T}

\* C5: at every instant T the trailing window (T - periodSeconds, T] holds at most
\* requestsPerPeriod admissions, and with the reference configuration (1 per 10)
\* any two admissions are at least 10 time units apart.
C5_WindowBound ==
    /\ \A i \in DOMAIN admitted :
          Cardinality(InWindow(admitted[i])) <= requests_per_period
    /\ (requests_per_period = RefRequestsPerPeriod /\ period_seconds = RefPeriodSeconds)
          => \A i, j \in DOMAIN admitted :
                i < j => admitted[j] - admitted[i] >= RefPeriodSeconds

\* C6: from an empty window the first requestsPerPeriod calls never sleep, and a
\* (requestsPerPeriod+1)-th call arriving less than one period after the first
\* recorded timestamp sleeps and is admitted no earlier than that timestamp plus
\* the period.
C6_BurstThenWait ==
    /\ \A k \in DOMAIN waits : k <= requests_per_period => waits[k] = 0
    /\ LET n == requests_per_period + 1
       IN (Len(admitted) >= n /\ called[n] - admitted[1] < period_seconds)
             => /\ waits[n] > 0
                /\ admitted[n] >= admitted[1] + period_seconds

\* C6 witness: two calls at one instant passed without sleeping and the third,
\* issued at that same instant, slept a whole period.
C6_Witness ==
    /\ requests_per_period = 2
    /\ Len(admitted) >= 3
    /\ called[1] = called[2] /\ called[2] = called[3]
    /\ waits[1] = 0 /\ waits[2] = 0
    /\ waits[3] = period_seconds

\* the GETs logged for article a (0: the calendar page)
RequestsFor(a) == {k \in DOMAIN http_log : http_log[k].article = a}

\* the completion is a JSON object and <<g, s>> are the values of its two members
ParsedFrom(c, g, s) ==
    /\ c.kind = "resp" /\ c.choices /= <<>>
    /\ c.choices[1].syntax = "object"
    /\ g = JsonGet(c.choices[1].fields, "genre")
    /\ s = JsonGet(c.choices[1].fields, "summary")
    /\ Truthy(g) /\ Truthy(s)

\* C2: each step of the classification loop leaves the article it dealt with, and
\* every article dealt with before it, with a non-null genre and a non-null
\* summary; the pair it stores is either the pair parsed from the completion
\* response, both non-empty, or exactly the sentinel pair; no other article is
\* touched.  A failed page fetch (content still None) makes no difference.
C2_Step ==
    (pc = "classify" /\ idx' = idx + 1) =>
        LET a == articles_with_content[idx]
            g == heap'[a].genre
            s == heap'[a].summary
        IN /\ \A i \in 1..idx :
                 /\ heap'[articles_with_content[i]].genre /= None
                 /\ heap'[articles_with_content[i]].summary /= None
           /\ IF <<g, s>> = <<SentinelGenre, SentinelSummary>> THEN TRUE
              ELSE ParsedFrom(response', g, s)
           /\ \A b \in DOMAIN heap : b /= a => heap'[b] = heap[b]

C2_GenreSummaryAlwaysSet == [][C2_Step]_vars

\* C2 witness: the classification loop is over a list of two articles whose page
\* fetches both failed; one holds a parsed pair, the other the sentinel pair.
C2_Witness ==
    /\ pc = "classify" /\ idx > Len(articles_with_content)
    /\ Len(articles_with_content) = 2
    /\ heap[1].content = None /\ heap[2].content = None
    /\ heap[1].genre \in Genres /\ heap[1].summary \in Summaries
    /\ heap[2].genre = SentinelGenre /\ heap[2].summary = SentinelSummary

\* C3: once the content stage is over, and in the list handed to the CSV writer,
\* every collected article is there exactly once and in the order the parser
\* produced the entries, whatever failed for any single article.
C3_EveryArticleOnceInOrder ==
    /\ (pc = "classify") => articles_with_content = articles
    /\ csv_called =>
          /\ articles_with_content = articles
          /\ articles = [i \in DOMAIN entries |-> i]
          /\ Len(exported) = Len(entries)
          /\ \A i \in DOMAIN exported :
                /\ exported[i] = heap[i]
                /\ exported[i].date = entries[i].entry_date
                /\ exported[i].handle_name = entries[i].handle_name
                /\ exported[i].url = entries[i].url

\* C3 witness: the CSV writer was handed two rows; the first article's page fetch
\* failed and the second article's classification fell back to the sentinel.
C3_Witness ==
    /\ csv_called
    /\ Len(exported) = 2
    /\ \E k \in RequestsFor(1) : ~http_log[k].ok
    /\ exported[1].content = None
    /\ exported[2].content /= None
    /\ exported[2].genre = SentinelGenre

\* C4: the collected articles are in ascending date order, so every stage deals
\* with them in ascending date order, and so are the rows handed to the CSV writer.
C4_AscendingDates ==
    /\ \A i, j \in DOMAIN articles :
          i < j => heap[articles[i]].date <= heap[articles[j]].date
    /\ \A i, j \in DOMAIN articles_with_content :
          i < j => heap[articles_with_content[i]].date
                      <= heap[articles_with_content[j]].date
    /\ csv_called =>
          \A i, j \in DOMAIN exported : i < j => exported[i].date <= exported[j].date

CalendarFailed ==
    IF http_log /= <<>> /\ ~http_log[1].ok THEN TRUE
    ELSE /\ pc /= "collect_parse"
         /\ calendar_html /= NoPage
         /\ ParseCalendarPage(strategy, calendar_html).exc /= "none"

\* C9: when the calendar fetch or the calendar parse fails, the run is aborted
\* with a ScrapingError, no Article was made, no article page was requested, the
\* limiter and the LLM were never called and no CSV was written.
C9_CalendarFailureAborts ==
    CalendarFailed =>
        /\ pc = "aborted"
        /\ error = "ScrapingError"
        /\ heap = <<>> /\ articles = <<>> /\ articles_with_content = <<>>
        /\ \A k \in DOMAIN http_log : http_log[k].article = 0
        /\ fetcher_session = 0 /\ Len(sessions) = 1
        /\ acquire_calls = 0 /\ llm_log = <<>>
        /\ ~csv_called /\ ~csv_written

\* C9 witness: the calendar page was fetched and the parser refused it.
C9_Witness ==
    /\ pc = "aborted"
    /\ http_log /= <<>> /\ http_log[1].ok
    /\ calendar_html /= NoPage
    /\ ParseCalendarPage(strategy, calendar_html).exc = "ScrapingError"

\* the calendar was fetched and parsed, and the parser found no entry
CollectedNothing ==
    /\ pc \notin {"start", "collect_fetch", "collect_parse"}
    /\ ~CalendarFailed
    /\ articles = <<>>

\* C10: a collection of zero entries ends the run at once and without an error:
\* only the calendar page was requested, the fetcher's session was never opened,
\* the limiter and the LLM were never called, the CSV writer was never called.
C10_NothingCollectedEarlyReturn ==
    CollectedNothing =>
        /\ pc \in {"collected", "done"}
        /\ error = "none"
        /\ \A k \in DOMAIN http_log : http_log[k].article = 0
        /\ fetcher_session = 0 /\ Len(sessions) = 1
        /\ acquire_calls = 0 /\ request_times = <<>> /\ llm_log = <<>>
        /\ ~csv_called /\ ~csv_written

\* C10 witness: the calendar page was fetched and parsed, no entry came of it, and
\* the run is over without an error.
C10_Witness ==
    /\ pc = "done"
    /\ articles = <<>>
    /\ Len(http_log) = 1 /\ http_log[1].ok
    /\ error = "none"

\* process_calendar has returned or raised
RunEnded == pc \in {"done", "aborted"}

\* C11 as claimed: a run ends either with the CSV written, one row per collected
\* entry, and no error, or with an error and no CSV output; never with both, never
\* with neither.
C11_CsvOrError ==
    RunEnded =>
        LET completed ==
                error = "none" /\ csv_file = "complete" /\ Len(exported) = Len(entries)
            failed == error /= "none" /\ csv_file = "none"
        IN IF completed THEN ~failed ELSE failed

\* C11 amended: a run ends in exactly one of three ways: the CSV written, one row
\* per collected entry, and no error; nothing collected, no error and the CSV
\* writer never called; or an error.  An error raised before the CSV writer is
\* called leaves no output, one raised by the writer may leave a part of the file.
C11_ThreeOutcomes ==
    RunEnded =>
        LET written ==
                /\ pc = "done" /\ error = "none"
                /\ entries /= <<>>
                /\ csv_called /\ csv_file = "complete"
                /\ Len(exported) = Len(entries)
            nothing ==
                /\ pc = "done" /\ error = "none"
                /\ entries = <<>>
                /\ ~csv_called /\ csv_file = "none"
            failed ==
                /\ pc = "aborted" /\ error /= "none"
                /\ csv_file /= "complete"
                /\ (~csv_called => csv_file = "none")
        IN Cardinality({o \in {"written", "nothing", "failed"} :
                           IF o = "written" THEN written
                           ELSE IF o = "nothing" THEN nothing
                           ELSE failed}) = 1

\* C11 witness: the CSV writer was handed two rows and failed while writing; the
\* run ended with an error and a part of the file.
C11_Witness ==
    /\ pc = "aborted" /\ error = "OSError"
    /\ csv_called /\ Len(exported) = 2
    /\ csv_file = "partial"

\* C12 as claimed: when the run has ended every session is closed, and there is
\* one session, which every request of the run used.
C12_OneSessionReused ==
    /\ RunEnded =>
          /\ \A i \in DOMAIN sessions : sessions[i] = "closed"
          /\ Len(sessions) = 1
    /\ \A k \in DOMAIN http_log : http_log[k].session = 1

\* C12 amended: when the run has ended, on every exit path, every session opened
\* is closed; a run opens one session for the calendar fetch (the scraper's),
\* closes it, and, when at least one article was collected, opens a second one
\* (the fetcher's), which all article fetches use.
C12_SessionsClosedTwoPerRun ==
    /\ Len(sessions) <= 2
    /\ (Len(sessions) = 2) => sessions[1] = "closed"
    /\ \A k \in DOMAIN http_log :
          http_log[k].session = IF http_log[k].article = 0 THEN 1 ELSE 2
    /\ RunEnded =>
          /\ \A i \in DOMAIN sessions : sessions[i] = "closed"
          /\ scraper_session = 0 /\ fetcher_session = 0
          /\ Len(sessions) = IF articles = <<>> THEN 1 ELSE 2

\* C12 witness: a run of two articles, the first one's fetch failed, has ended
\* with both of its sessions closed.
C12_Witness ==
    /\ RunEnded
    /\ Len(articles) = 2
    /\ \E k \in RequestsFor(1) : ~http_log[k].ok
    /\ sessions = <<"closed", "closed">>

\* the scenario's calendar: Dec 1 by "al" with a comment, Dec 3 by "bo" without
ScenarioEntries ==
    <<ArticleEntry(1, <<"a", "l">>, Url1, <<"h", "i">>),
      ArticleEntry(3, <<"b", "o">>, Url3, None)>>

\* C17: each step of the classification loop stores in its article the genre and
\* the summary the classifier returned for it, whatever comment the article had,
\* and leaves the other articles alone; in the scenario (Dec 1 with a comment,
\* Dec 3 without) the exported list has the two rows in date order, each with the
\* genre and summary stored for it, the last one's being the classifier's last
\* return value.
C17_Step ==
    /\ (pc = "classify" /\ idx' = idx + 1) =>
          LET a == articles_with_content[idx]
          IN /\ result'.exc = "none"
             /\ heap'[a].genre = result'.value[1]
             /\ heap'[a].summary = result'.value[2]
             /\ \A b \in DOMAIN heap : b /= a => heap'[b] = heap[b]
    /\ (csv_called' /\ entries' = ScenarioEntries) =>
          /\ Len(exported') = 2
          /\ exported'[1].date = 1 /\ exported'[2].date = 3
          /\ \A i \in 1..2 :
                /\ exported'[i].genre = heap'[i].genre
                /\ exported'[i].summary = heap'[i].summary
          /\ <<exported'[2].genre, exported'[2].summary>> = result'.value

C17_ClassifierPairStored == [][C17_Step]_vars

\* C17 witness: the scenario's run has exported its two rows, both holding the
\* pair the classifier parsed, the first article's comment replaced by it.
C17_Witness ==
    /\ csv_called /\ entries = ScenarioEntries
    /\ \A i \in 1..2 : exported[i].genre \in Genres /\ exported[i].summary \in Summaries

\* --- the parsers' claims: what a page says, read off the page itself ------

\* the day a grid cell shows, the day a list item's date ends in
CellDay(cell) == ToInt(Strip(cell.day))
ItemDay(item) == ToInt(LastSegment(Strip(item.date), "/"))

\* the cell is a day cell: it has the marker and shows a day of the month
DayCell(cell) ==
    /\ cell.inner
    /\ cell.day /= None
    /\ IsDigit(Strip(cell.day))
    /\ ValidDay(CellDay(cell))

\* the list item is dated and linked
LinkedItem(item) ==
    /\ item.date /= None
    /\ IsDigit(LastSegment(Strip(item.date), "/"))
    /\ Truthy(item.href)

\* a posted day: a day cell with an author and a linked item of its day
PostedCell(cell, items) ==
    /\ DayCell(cell)
    /\ cell.user /= None
    /\ \E j \in DOMAIN items : LinkedItem(items[j]) /\ ItemDay(items[j]) = CellDay(cell)

\* valid grid markup: every cell with the marker is a day cell, the day cells are
\* in calendar order, every list item is dated, and no two items share a day
ValidGrid(page) ==
    /\ \A i \in DOMAIN page.cells : page.cells[i].inner => DayCell(page.cells[i])
    /\ \A i, j \in DOMAIN page.cells :
          (i < j /\ page.cells[i].inner /\ page.cells[j].inner)
              => CellDay(page.cells[i]) < CellDay(page.cells[j])
    /\ \A j \in DOMAIN page.items :
          /\ page.items[j].date /= None
          /\ IsDigit(LastSegment(Strip(page.items[j].date), "/"))
    /\ \A j, k \in DOMAIN page.items :
          j /= k => ItemDay(page.items[j]) /= ItemDay(page.items[k])

\* the page lacks the structure a calendar has
AnchorsAbsent(parser, page) ==
    IF parser = "adventar" THEN page.cells = <<>>
    ELSE ~(page.section /\ page.table /\ page.tbody)

\* the page has no posted day
NothingPosted(parser, page) ==
    IF parser = "adventar"
    THEN \A i \in DOMAIN page.cells : ~PostedCell(page.cells[i], page.items)
    ELSE \A r \in DOMAIN page.rows : \A c \in DOMAIN page.rows[r] :
            ~TableCellPosted(page.rows[r][c])

\* C13: a page without the calendar's structure makes either parser raise
\* ScrapingError, never return an empty list; a page with the structure and no
\* posted day makes it return the empty list without an error.
C13_AnchorsOrEmptyList ==
    pc = "parsed" =>
        IF AnchorsAbsent(strategy, calendar_html)
        THEN error = "ScrapingError"
        ELSE NothingPosted(strategy, calendar_html)
                => (error = "none" /\ entries = <<>>)

\* C14: for valid grid markup the parser returns one entry per posted day and no
\* other, in ascending date order, each with the link and the comment of the list
\* item of that day.
C14_GridOneEntryPerPostedDay ==
    (pc = "parsed" /\ strategy = "adventar" /\ ValidGrid(calendar_html)) =>
        LET cells == calendar_html.cells
            items == calendar_html.items
            posted == {i \in DOMAIN cells : PostedCell(cells[i], items)}
        IN /\ error = "none"
           /\ Len(entries) = Cardinality(posted)
           /\ \A k, l \in DOMAIN entries :
                 k < l => entries[k].entry_date < entries[l].entry_date
           /\ \A i \in posted : \E k \in DOMAIN entries : \E j \in DOMAIN items :
                 /\ entries[k].entry_date = CellDay(cells[i])
                 /\ entries[k].handle_name = Strip(cells[i].user)
                 /\ ItemDay(items[j]) = CellDay(cells[i])
                 /\ entries[k].url = items[j].href
                 /\ entries[k].comment = IF items[j].comment = None THEN None
                                         ELSE Strip(items[j].comment)

\* C14 witness: a valid grid of two day cells, the first posted and the second
\* not (its list item has no link yet), gave one entry.
C14_Witness ==
    /\ pc = "parsed" /\ strategy = "adventar" /\ ValidGrid(calendar_html)
    /\ Len(calendar_html.cells) = 2
    /\ \A i \in 1..2 : DayCell(calendar_html.cells[i]) /\ calendar_html.cells[i].user /= None
    /\ Len(calendar_html.items) = 2
    /\ Len(entries) = 1 /\ entries[1].entry_date = 1

\* C15: the table parser gives the entry of the posted cell in row r (from 0) and
\* column c (from 1) the day 7r + c, one entry per posted cell, also when two rows
\* have the same content.
C15_TableDayIs7rPlusC ==
    (pc = "parsed" /\ strategy = "qiita" /\ error = "none") =>
        LET rows == calendar_html.rows
            posted == {rc \in (DOMAIN rows) \X (1..7) :
                          /\ rc[2] \in DOMAIN rows[rc[1]]
                          /\ TableCellPosted(rows[rc[1]][rc[2]])}
        IN /\ Len(entries) = Cardinality(posted)
           /\ \A rc \in posted : \E k \in DOMAIN entries :
                 /\ entries[k].entry_date = 7 * (rc[1] - 1) + rc[2]
                 /\ entries[k].url = rows[rc[1]][rc[2]].href

\* a table cell with an author and no linked article; the same cell left empty
AuthorOnlyTableCell(cell) == cell.container /\ ~Truthy(cell.href) /\ cell.author /= None
EmptyTableCell == TableCell(FALSE, None, <<>>, None, <<>>)
WithEmptyTableCell(page, r, c) == [page EXCEPT !.rows[r][c] = EmptyTableCell]

\* a grid day cell with an author and no linked article; the page without the cell
AuthorOnlyGridCell(cell, items) ==
    DayCell(cell) /\ cell.user /= None /\ ~PostedCell(cell, items)
WithoutGridCell(page, i) ==
    [page EXCEPT !.cells = SubSeq(page.cells, 1, i - 1)
                              \o SubSeq(page.cells, i + 1, Len(page.cells))]

\* C16: a day cell with an author and no linked article yields no entry and leaves
\* the other cells' entries and day numbers as they are: the parser's outcome is
\* the one it has on the page without that cell (grid) or with that cell empty
\* (table).
C16_AuthorOnlyCellChangesNothing ==
    pc = "parsed" =>
        LET page == calendar_html
            outcome == [exc |-> error, entries |-> entries]
        IN IF strategy = "adventar"
           THEN \A i \in DOMAIN page.cells :
                   AuthorOnlyGridCell(page.cells[i], page.items)
                       => AdventarParse(WithoutGridCell(page, i)) = outcome
           ELSE \A r \in DOMAIN page.rows : \A c \in DOMAIN page.rows[r] :
                   AuthorOnlyTableCell(page.rows[r][c])
                       => QiitaParse(WithEmptyTableCell(page, r, c)) = outcome


(***************************************************************************)
(* C18                                                                     *)
(***************************************************************************)
\* the host d is the table entry h: the name itself or a subdomain of it
KnownHost(d, h) ==
    \/ d = h
    \/ /\ Len(d) > Len(h)
       /\ SubSeq(d, Len(d) - Len(h), Len(d)) = <<".">> \o h

\* C18: creating a scraper for a host that is in neither known-host entry fails
\* with a ValueError that names the host, with no session opened and no request
\* made; a host in an entry selects that entry's strategy.
C18_UnknownHostFailsFast ==
    pc = "created" =>
        /\ sessions = <<>>
        /\ http_log = <<>>
        /\ IF KnownHost(domain, AdventarHost) THEN created = ScraperFor("adventar")
           ELSE IF KnownHost(domain, QiitaHost) THEN created = ScraperFor("qiita")
           ELSE created = UnsupportedDomain(domain)


(***************************************************************************)
(* C19                                                                     *)
(***************************************************************************)
\* the normalized text of the page that was extracted: the body element's text,
\* converted, its lines stripped and the non-empty ones joined by one space
NormalizedText ==
    JoinLines(SplitLines(Html2Text(extract_content(fetch_result.body)[2])))

\* C19: the cleaned content is the normalized text itself when that has at most
\* ContentMax (8000) characters, and exactly its first ContentMax characters when
\* it is longer.
C19_CutAtExactlyMax ==
    pc = "extracted" =>
        LET content == heap[1].content
        IN /\ Len(NormalizedText) <= ContentMax => content = NormalizedText
           /\ Len(NormalizedText) > ContentMax =>
                /\ Len(content) = ContentMax
                /\ \A i \in 1..ContentMax : content[i] = NormalizedText[i]

\* a page whose two lines join to ContentMax + 1 characters was cut to ContentMax
C19_Witness ==
    /\ pc = "extracted"
    /\ Len(NormalizedText) = ContentMax + 1
    /\ NormalizedText[ContentMax - 1] = " "
    /\ Len(heap[1].content) = ContentMax


(***************************************************************************)
(* C20                                                                     *)
(***************************************************************************)
\* C20: the extracted title is the text of the first heading if the page has one,
\* else the text of the document title element, else the title carried by the
\* og:title meta tag, else the empty string.
C20_TitlePriority ==
    pc = "extracted" =>
        LET page == fetch_result.body
        IN heap[1].title =
              IF page.h1 /= None THEN Strip(page.h1)
              ELSE IF page.title /= None THEN Strip(page.title)
              ELSE IF page.og_title /= None THEN Strip(page.og_title)
              ELSE <<>>


(***************************************************************************)
(* C21                                                                     *)
(***************************************************************************)
\* the requests for article pages, as positions of http_log
ArticleRequests == {k \in DOMAIN http_log : http_log[k].article /= 0}

\* C21 as claimed: a delay of 1 time unit is made before every article page
\* request, so there are at least as many sleeps of 1 unit or more as there are
\* article requests.
C21_DelayBeforeEveryFetch ==
    /\ Len(fetch_sleeps) >= Cardinality(ArticleRequests)
    /\ \A k \in DOMAIN fetch_sleeps : fetch_sleeps[k] >= 1

\* C21 as amended: no step that requests an article page sleeps, before the
\* request or after it.
C21_RequestStep ==
    Len(http_log') > Len(http_log) /\ http_log'[Len(http_log')].article /= 0
        => fetch_sleeps' = <<>>

C21_NoDelayBeforeFetch == [][C21_RequestStep]_vars

\* two article pages were requested one after the other and nothing slept
C21_Witness ==
    /\ \E k \in ArticleRequests : k + 1 \in ArticleRequests
    /\ fetch_sleeps = <<>>


(***************************************************************************)
(* C22                                                                     *)
(***************************************************************************)
\* C22: every analyze_content call makes exactly one acquire; it calls the
\* completion endpoint at most once, and only when that acquire returned (with
\* the real limiter: recorded an admission); when acquire raises, the endpoint is
\* not called, nothing is raised to the caller and the sentinel pair is returned.
C22_Step ==
    analyze_calls' = analyze_calls + 1 =>
        /\ acquire_calls' = acquire_calls + 1
        /\ llm_log' = llm_log \/ (Len(llm_log') = Len(llm_log) + 1 /\ response' \in Completions)
        /\ Len(llm_log') > Len(llm_log) =>
              /\ limiter_kind /= "mock_raising"
              /\ limiter_kind = "real" => Len(admitted') = Len(admitted) + 1
        /\ limiter_kind = "mock_raising" =>
              /\ llm_log' = llm_log
              /\ response' = response
              /\ result' = Return(SentinelGenre, SentinelSummary)

CalendarRequests(log) == {k \in DOMAIN log : log[k].article = 0}

\* C23: scrape_articles requests the calendar page exactly once, parses the page
\* it fetched exactly once (the parse step is entered only by the fetch and never
\* repeated), and yields one Article per parsed entry, in the parser's order,
\* with title "", genre None, content None, summary the entry's comment, and
\* date, handle_name and url those of the entry.
C23_Step ==
    /\ pc' = "collect_parse" =>
          /\ pc = "collect_fetch"
          /\ Cardinality(CalendarRequests(http_log')) = 1
    /\ pc = "collect_parse" =>
          /\ pc' \in {"collected", "aborted"}
          /\ http_log' = http_log
    /\ pc = "collect_parse" /\ pc' = "collected" =>
          /\ entries' = ParseCalendarPage(strategy, calendar_html).entries
          /\ Len(heap') = Len(entries')
          /\ articles' = [i \in DOMAIN entries' |-> i]
          /\ \A i \in DOMAIN entries' :
                heap'[i] = [date |-> entries'[i].entry_date,
                            handle_name |-> entries'[i].handle_name,
                            title |-> <<>>,
                            genre |-> None,
                            summary |-> entries'[i].comment,
                            url |-> entries'[i].url,
                            content |-> None]

C23_OneFetchOneParseOneArticlePerEntry == [][C23_Step]_vars

\* two entries were parsed, the first with a comment, and two articles collected
C23_Witness ==
    /\ pc = "collected"
    /\ Len(entries) = 2
    /\ articles = <<1, 2>>
    /\ Truthy(entries[1].comment)
    /\ heap[1].summary = entries[1].comment
    /\ heap[2].url = entries[2].url
    /\ Cardinality(CalendarRequests(http_log)) = 1


(***************************************************************************)
(* C24                                                                     *)
(***************************************************************************)
\* the step's fetch of article a failed: it made no request, or its request failed
FetchFailedIn(a) ==
    \/ http_log' = http_log
    \/ /\ Len(http_log') > Len(http_log)
       /\ http_log'[Len(http_log')].article = a
       /\ ~http_log'[Len(http_log')].ok

\* C24: a step of the content stage changes nothing but the title and the content
\* of the article it is at; when that article's fetch fails, its title stays ""
\* and its content None, as the collection stage made them.
C24_Step ==
    pc = "content" /\ idx' = idx + 1 =>
        /\ DOMAIN heap' = DOMAIN heap
        /\ \A i \in DOMAIN heap :
              /\ heap'[i].date = heap[i].date
              /\ heap'[i].handle_name = heap[i].handle_name
              /\ heap'[i].url = heap[i].url
              /\ heap'[i].genre = heap[i].genre
              /\ heap'[i].summary = heap[i].summary
              /\ i /= articles[idx] => heap'[i] = heap[i]
        /\ FetchFailedIn(articles[idx]) =>
              /\ heap'[articles[idx]].title = <<>>
              /\ heap'[articles[idx]].content = None

C24_ContentStageFrame == [][C24_Step]_vars

\* the first article's page was fetched and extracted, the second's fetch failed
C24_Witness ==
    /\ pc = "content"
    /\ idx = 3
    /\ Len(http_log) = 3
    /\ http_log[2].ok /\ ~http_log[3].ok
    /\ heap[1].content /= None
    /\ Truthy(heap[1].title)
    /\ heap[2].title = <<>> /\ heap[2].content = None
    /\ Truthy(heap[2].summary)


(***************************************************************************)
(* C25                                                                     *)
(***************************************************************************)
\* C25: an article page is requested only after collection has finished (the
\* scraper's session is closed and every parsed entry is in the list); the limiter
\* and the completion endpoint are called only after the content stage has
\* yielded every article and closed its session; the CSV writer is called only
\* after every article has been classified.
C25_Step ==
    /\ (Len(http_log') > Len(http_log) /\ http_log'[Len(http_log')].article /= 0) =>
          /\ pc = "content"
          /\ scraper_session = 0
          /\ Len(articles) = Len(entries)
          /\ acquire_calls = 0 /\ llm_log = <<>>
    /\ (acquire_calls' /= acquire_calls \/ llm_log' /= llm_log) =>
          /\ pc = "classify"
          /\ fetcher_session = 0
          /\ articles_with_content = articles
          /\ http_log' = http_log
          /\ ~csv_called
    /\ (csv_called' /\ ~csv_called) =>
          /\ analyze_calls = Len(articles_with_content)
          /\ Len(articles_with_content) = Len(entries)
          /\ \A i \in DOMAIN articles_with_content :
                heap[articles_with_content[i]].genre /= None
          /\ acquire_calls' = acquire_calls /\ llm_log' = llm_log

C25_WholeListStages == [][C25_Step]_vars

\* two articles went through the four stages
C25_Witness ==
    /\ pc = "done"
    /\ csv_called
    /\ Len(articles) = 2
    /\ Cardinality(ArticleRequests) = 2
    /\ analyze_calls = 2
    /\ Len(exported) = 2


(***************************************************************************)
(* C26                                                                     *)
(***************************************************************************)
\* the session the scraper or the fetcher holds, 0 for None
HeldSession == scraper_session + fetcher_session

\* C26: a fetch made while no session is held (before the scope is entered or
\* after it has exited) ends with an error and requests nothing; the exit of the
\* scope closes the session and clears the reference, so a held session is an open
\* one and every request is made on a session that is open.
C26_Step ==
    /\ (fetch_result' /= fetch_result /\ HeldSession = 0) =>
          /\ fetch_result'.exc \in {"RuntimeError", "ScrapingError"}
          /\ http_log' = http_log
    /\ (\E s \in DOMAIN sessions : sessions[s] = "open" /\ sessions'[s] = "closed") =>
          /\ scraper_session' = 0
          /\ fetcher_session' = 0
    /\ \A k \in DOMAIN http_log' :
          k > Len(http_log) =>
              /\ http_log'[k].session \in DOMAIN sessions
              /\ sessions[http_log'[k].session] = "open"
    /\ scraper_session' /= 0 => sessions'[scraper_session'] = "open"
    /\ fetcher_session' /= 0 => sessions'[fetcher_session'] = "open"

C26_SessionUsedOnlyWhileOpen == [][C26_Step]_vars

\* a fetch made after the scope had been entered and left: an error, no request
C26_Witness ==
    /\ sessions = <<"closed">>
    /\ HeldSession = 0
    /\ fetch_result.exc \in {"RuntimeError", "ScrapingError"}
    /\ fetch_result.attempts = 0
    /\ http_log = <<>>

====
